---- MODULE Spec2Model ----
(***************************************************************************)
(* scripts/generate_test_stl.py: the binary STL writer write_stl_binary    *)
(* and the two mesh generators generate_cube_stl, generate_pyramid_stl.    *)
(*                                                                         *)
(* Numbers.  A Python float is modelled as a binary fixed-point number     *)
(* with FracBits fractional bits: the integer r stands for r / 2^FracBits. *)
(* Inputs are whole and half units, so every subtraction and product of    *)
(* the normal computation is exact, as it is in double precision for such  *)
(* inputs; the square root and the division round to the nearest           *)
(* representable value (ties to even), as IEEE-754 does.  The sign of a    *)
(* zero is not modelled (-0.0 and 0.0 are the one value 0).  Coordinates    *)
(* stay in the range binary32 carries exactly; magnitudes at which a       *)
(* double under- or overflows, or struct.pack raises OverflowError, are    *)
(* outside the model.                                                      *)
(* struct.pack('<fff') is modelled byte for byte: Pack32 is the IEEE-754   *)
(* binary32 little-endian encoding of the value.                           *)
(*                                                                         *)
(* Files.  f.write is modelled unbuffered: the bytes handed to a write     *)
(* that returns are in the file.                                           *)
(***************************************************************************)
EXTENDS Integers, Sequences, FiniteSets, TLC

\* ---------------------------------------------------------------- bounds
FracBits == 7
MaxSize == 10
MaxTriangles == 2

Scale == 2^FracBits

\* ------------------------------------------------- float arithmetic
Abs(x) == IF x < 0 THEN -x ELSE x

Sgn(x) == IF x < 0 THEN -1 ELSE IF x > 0 THEN 1 ELSE 0

\* p / q for p >= 0, q > 0, rounded to the nearest integer, ties to even.
RoundNat(p, q) ==
  LET d == p \div q
      r == p % q
  IN IF 2 * r > q \/ (2 * r = q /\ d % 2 = 1) THEN d + 1 ELSE d

Round(p, q) == Sgn(p) * Sgn(q) * RoundNat(Abs(p), Abs(q))

RECURSIVE Isqrt(_, _, _)
\* The largest r in lo..hi with r*r <= n.
Isqrt(n, lo, hi) ==
  IF lo >= hi THEN lo
  ELSE LET mid == (lo + hi + 1) \div 2
       IN IF mid * mid <= n THEN Isqrt(n, mid, hi) ELSE Isqrt(n, lo, mid - 1)

FromInt(n) == n * Scale

FNeg(a) == 0 - a

FSub(a, b) == a - b

FMul(a, b) == Round(a * b, Scale)

FDiv(a, b) == Round(a * Scale, b)

\* a ** 0.5, a >= 0: the representable value nearest to the square root.
FSqrt(a) ==
  LET n == a * Scale
      r == Isqrt(n, 0, 46340)
  IN IF n - r * r > r THEN r + 1 ELSE r

\* ------------------------------------------------------- struct.pack
RECURSIVE TopBit(_)
\* The position of the leading one bit of m >= 1.
TopBit(m) == IF m < 2 THEN 0 ELSE 1 + TopBit(m \div 2)

\* struct.pack('<f', r): sign, 8-bit biased exponent, 23-bit fraction,
\* least significant byte first.
Pack32(r) ==
  IF r = 0 THEN <<0, 0, 0, 0>>
  ELSE LET m == Abs(r)
           e == TopBit(m)
           sig == IF e <= 23 THEN m * 2^(23 - e) ELSE RoundNat(m, 2^(e - 23))
           carry == IF sig = 2^24 THEN 1 ELSE 0
           mant == IF carry = 1 THEN 0 ELSE sig - 2^23
           bexp == e - FracBits + 127 + carry
           s == IF r < 0 THEN 1 ELSE 0
       IN <<mant % 256, (mant \div 256) % 256,
            (bexp % 2) * 128 + mant \div 65536, s * 128 + bexp \div 2>>

\* struct.pack('<fff', *v)
Pack3(v) == Pack32(v[1]) \o Pack32(v[2]) \o Pack32(v[3])

\* The count packed most significant byte first, as '>I' would.
PackCountBigEndian(n) ==
  <<(n \div 16777216) % 256, (n \div 65536) % 256, (n \div 256) % 256, n % 256>>

\* struct.pack('<I', n)
PackCount(n) ==
  <<n % 256, (n \div 256) % 256, (n \div 65536) % 256, (n \div 16777216) % 256>>

\* b'STL test file generated for GCodeKit5' + b' ' * 42
Header ==
  <<83, 84, 76, 32, 116, 101, 115, 116, 32, 102, 105, 108, 101, 32, 103, 101,
    110, 101, 114, 97, 116, 101, 100, 32, 102, 111, 114, 32, 71, 67, 111, 100,
    101, 75, 105, 116, 53>> \o [j \in 1..42 |-> 32]

\* An attribute byte count of 256.
NonZeroAttribute == <<0, 1>>

\* b'\x00\x00'
AttributeBytes == <<0, 0>>

\* ------------------------------------------------- the face normal
Edge(a, b) == <<FSub(a[1], b[1]), FSub(a[2], b[2]), FSub(a[3], b[3])>>

Cross(edge1, edge2) ==
  <<FSub(FMul(edge1[2], edge2[3]), FMul(edge1[3], edge2[2])),
    FSub(FMul(edge1[3], edge2[1]), FMul(edge1[1], edge2[3])),
    FSub(FMul(edge1[1], edge2[2]), FMul(edge1[2], edge2[1]))>>

VecLength(n) == FSqrt(FMul(n[1], n[1]) + FMul(n[2], n[2]) + FMul(n[3], n[3]))

\* A zero normal for a degenerate triangle.
ZeroNormal == <<FromInt(0), FromInt(0), FromInt(0)>>

FallbackNormal == <<FromInt(0), FromInt(0), FromInt(1)>>

\* The cross product written as it is, not divided by its length.
NormalizeSkipped(n) == n

Normalize(n) ==
  LET length == VecLength(n)
  IN IF length > 0
     THEN <<FDiv(n[1], length), FDiv(n[2], length), FDiv(n[3], length)>>
     ELSE FallbackNormal

FaceNormal(triangle) ==
  Normalize(Cross(Edge(triangle[2], triangle[1]), Edge(triangle[3], triangle[1])))

\* ------------------------------------------------------ generators
CubeVertices(s) ==
  << <<FNeg(s), FNeg(s), FNeg(s)>>, <<s, FNeg(s), FNeg(s)>>,
     <<s, s, FNeg(s)>>, <<FNeg(s), s, FNeg(s)>>,
     <<FNeg(s), FNeg(s), s>>, <<s, FNeg(s), s>>,
     <<s, s, s>>, <<FNeg(s), s, s>> >>

\* CubeFaces with the second top triangle on the wrong corner (7 -> 3).
CubeFacesTypo ==
  << <<0, 1, 2>>, <<0, 2, 3>>,
     <<4, 6, 5>>, <<4, 3, 6>>,
     <<0, 4, 5>>, <<0, 5, 1>>,
     <<2, 6, 7>>, <<2, 7, 3>>,
     <<0, 3, 7>>, <<0, 7, 4>>,
     <<1, 5, 6>>, <<1, 6, 2>> >>

\* The vertex indices of the 12 triangles, counted from 0 as in the source.
CubeFaces ==
  << <<0, 1, 2>>, <<0, 2, 3>>,
     <<4, 6, 5>>, <<4, 7, 6>>,
     <<0, 4, 5>>, <<0, 5, 1>>,
     <<2, 6, 7>>, <<2, 7, 3>>,
     <<0, 3, 7>>, <<0, 7, 4>>,
     <<1, 5, 6>>, <<1, 6, 2>> >>

generate_cube_stl(size) ==
  LET s == FDiv(size, FromInt(2))
      vertices == CubeVertices(s)
  IN [t \in 1..Len(CubeFaces) |->
        <<vertices[CubeFaces[t][1] + 1], vertices[CubeFaces[t][2] + 1],
          vertices[CubeFaces[t][3] + 1]>>]

PyramidBase(s) ==
  << <<FNeg(s), FNeg(s), FromInt(0)>>, <<s, FNeg(s), FromInt(0)>>,
     <<s, s, FromInt(0)>>, <<FNeg(s), s, FromInt(0)>> >>

\* PyramidFaces with the last side on the base diagonal (0 -> 1).
PyramidFacesTypo ==
  << <<0, 2, 1>>, <<0, 3, 2>>,
     <<0, 1, 4>>, <<1, 2, 4>>, <<2, 3, 4>>, <<3, 1, 4>> >>

\* Vertex indices into base (0..3); 4 stands for the apex.
PyramidFaces ==
  << <<0, 2, 1>>, <<0, 3, 2>>,
     <<0, 1, 4>>, <<1, 2, 4>>, <<2, 3, 4>>, <<3, 0, 4>> >>

generate_pyramid_stl(base_size, height) ==
  LET s == FDiv(base_size, FromInt(2))
      h == height
      apex == <<FromInt(0), FromInt(0), h>>
      points == PyramidBase(s) \o <<apex>>
  IN [t \in 1..Len(PyramidFaces) |->
        <<points[PyramidFaces[t][1] + 1], points[PyramidFaces[t][2] + 1],
          points[PyramidFaces[t][3] + 1]>>]

\* ----------------------------------------------------------- inputs
\* The point (x, y, z) given in whole units.
Point(x, y, z) == <<FromInt(x), FromInt(y), FromInt(z)>>

Coords == {-1, 0, 1}

GridPoints == {Point(x, y, z) : x \in Coords, y \in Coords, z \in Coords}

\* Every triangle over the grid, degenerate ones included.
GridTriangles == {<<a, b, c>> : a \in GridPoints, b \in GridPoints, c \in GridPoints}

\* Triangles for meshes of several triangles: a proper one, three coincident
\* vertices, three distinct collinear vertices, and a malformed triangle of
\* two vertices (v1, v2, v3 = triangle raises ValueError on it).
ProperTriangle == <<Point(0, 0, 0), Point(1, 0, 0), Point(0, 1, 0)>>

CoincidentTriangle == <<Point(1, 1, 1), Point(1, 1, 1), Point(1, 1, 1)>>

CollinearTriangle == <<Point(-1, -1, 0), Point(0, 0, 0), Point(1, 1, 0)>>

MalformedTriangle == <<Point(0, 0, 0), Point(1, 0, 0)>>

TestTriangles ==
  {ProperTriangle, CoincidentTriangle, CollinearTriangle, MalformedTriangle}

TestMeshes == UNION {[1..n -> TestTriangles] : n \in 0..MaxTriangles}

InputMeshes == TestMeshes \cup {<<t>> : t \in GridTriangles}

Sizes == {FromInt(n) : n \in 1..MaxSize}

\* ------------------------------------------------------------ state
VARIABLES
  call,        \* what produced the mesh: the generator and its arguments
  triangles,   \* the mesh handed to write_stl_binary
  pc,          \* the writer's position
  i,           \* the index of the triangle of the current iteration
  k,           \* the index of the vertex the inner loop writes next
  file,        \* the destination: whether it exists, and its bytes
  err          \* the exception that ended the call

vars == <<call, triangles, pc, i, k, file, err>>

NoFile == [exists |-> FALSE, data |-> <<>>]

\* f.write(b) on the open file.
Written(f, b) == [f EXCEPT !.data = @ \o b]

\* The partial file removed when the call fails.
UnlinkOnRaise(f) == NoFile

\* Leaving the with block on an exception closes the file, and nothing else.
CloseOnRaise(f) == f

\* The vertices written last to first.
VertexReversed(triangle, n) == triangle[Len(triangle) + 1 - n]

\* for vertex in triangle: the n-th vertex of the iteration.
VertexAt(triangle, n) == triangle[n]

Init ==
  /\ call = [fn |-> "none", a |-> 0, b |-> 0]
  /\ triangles = <<>>
  /\ pc = "idle"
  /\ i = 0
  /\ k = 0
  /\ file = NoFile
  /\ err = "none"

\* ---------------------------------------------------------- callers
GenerateCube(size) ==
  /\ pc = "idle"
  /\ call' = [fn |-> "cube", a |-> size, b |-> 0]
  /\ triangles' = generate_cube_stl(size)
  /\ pc' = "open"
  /\ UNCHANGED <<i, k, file, err>>

GeneratePyramid(base_size, height) ==
  /\ pc = "idle"
  /\ call' = [fn |-> "pyramid", a |-> base_size, b |-> height]
  /\ triangles' = generate_pyramid_stl(base_size, height)
  /\ pc' = "open"
  /\ UNCHANGED <<i, k, file, err>>

GivenMesh(mesh) ==
  /\ pc = "idle"
  /\ call' = [fn |-> "given", a |-> 0, b |-> 0]
  /\ triangles' = mesh
  /\ pc' = "open"
  /\ UNCHANGED <<i, k, file, err>>

\* ------------------------------------------------- write_stl_binary
Raise(kind) ==
  /\ pc' = "raised"
  /\ err' = kind
  /\ UNCHANGED <<call, triangles, i, k>>

\* open(filename, 'wb') creates the file, empty.
Open ==
  /\ pc = "open"
  /\ file' = [exists |-> TRUE, data |-> <<>>]
  /\ pc' = "header"
  /\ UNCHANGED <<call, triangles, i, k, err>>

\* open raises OSError: the path is unwritable.
OpenFails ==
  /\ pc = "open"
  /\ file' = file
  /\ Raise("open")

WriteHeader ==
  /\ pc = "header"
  /\ file' = Written(file, Header)
  /\ pc' = "count"
  /\ UNCHANGED <<call, triangles, i, k, err>>

WriteCount ==
  /\ pc = "count"
  /\ file' = Written(file, PackCount(Len(triangles)))
  /\ pc' = "triangle"
  /\ i' = 1
  /\ UNCHANGED <<call, triangles, k, err>>

\* v1, v2, v3 = triangle; the normal; f.write(struct.pack('<fff', *normal))
WriteNormal ==
  /\ pc = "triangle"
  /\ i <= Len(triangles)
  /\ Len(triangles[i]) = 3
  /\ file' = Written(file, Pack3(FaceNormal(triangles[i])))
  /\ pc' = "vertex"
  /\ k' = 1
  /\ UNCHANGED <<call, triangles, i, err>>

\* v1, v2, v3 = triangle raises ValueError.
UnpackFails ==
  /\ pc = "triangle"
  /\ i <= Len(triangles)
  /\ Len(triangles[i]) # 3
  /\ file' = CloseOnRaise(file)
  /\ Raise("unpack")

WriteVertex ==
  /\ pc = "vertex"
  /\ file' = Written(file, Pack3(VertexAt(triangles[i], k)))
  /\ IF k < Len(triangles[i])
     THEN pc' = pc /\ k' = k + 1
     ELSE pc' = "attribute" /\ k' = 0
  /\ UNCHANGED <<call, triangles, i, err>>

WriteAttribute ==
  /\ pc = "attribute"
  /\ file' = Written(file, AttributeBytes)
  /\ pc' = "triangle"
  /\ i' = i + 1
  /\ UNCHANGED <<call, triangles, k, err>>

\* The loop is over: the with block closes the file.
Close ==
  /\ pc = "triangle"
  /\ i > Len(triangles)
  /\ pc' = "done"
  /\ UNCHANGED <<call, triangles, i, k, file, err>>

\* An f.write raises OSError (disk full, ...): what was written stays.
WriteFails ==
  /\ \/ pc \in {"header", "count", "vertex", "attribute"}
     \/ pc = "triangle" /\ i <= Len(triangles) /\ Len(triangles[i]) = 3
  /\ file' = CloseOnRaise(file)
  /\ Raise("write")

\* The caller: a generator's mesh, or a mesh of its own, goes to the writer.
Caller ==
  /\ pc = "idle"
  /\ \/ \E size \in Sizes : GenerateCube(size)
     \/ \E base_size \in Sizes, height \in Sizes : GeneratePyramid(base_size, height)
     \/ \E mesh \in InputMeshes : GivenMesh(mesh)

Next ==
  \/ Caller
  \/ Open
  \/ OpenFails
  \/ WriteHeader
  \/ WriteCount
  \/ WriteNormal
  \/ UnpackFails
  \/ WriteVertex
  \/ WriteAttribute
  \/ Close
  \/ WriteFails

Spec == Init /\ [][Next]_vars

\* ------------------------------------------------ reading a file back
HeaderLen == Len(Header)

\* The bytes at offsets from..from+n-1 (offsets count from 0).
Bytes(from, n) == SubSeq(file.data, from + 1, from + n)

\* The little-endian unsigned integer of four bytes.
UnpackCount(b) == b[1] + 256 * b[2] + 65536 * b[3] + 16777216 * (b[4] % 128)

\* The value of a binary32 given as four bytes, least significant first, in
\* units of 1/Scale; 2^30 stands for any value too large for the model.
Unpack32(b) ==
  LET s == b[4] \div 128
      bexp == (b[4] % 128) * 2 + b[3] \div 128
      mant == (b[3] % 128) * 65536 + b[2] * 256 + b[1]
      sig == 2^23 + mant
      sh == bexp - 127 - 23 + FracBits
  IN IF bexp = 0 \/ sh < -24 THEN 0
     ELSE IF sh > 6 THEN 2^30
     ELSE (1 - 2 * s) * (IF sh >= 0 THEN sig * 2^sh ELSE sig \div 2^(0 - sh))

\* The offset of the j-th record (j from 1) in a file whose header is read
\* as the writer wrote it.
RecordOffset(j) == HeaderLen + 4 + 50 * (j - 1)

\* How many whole records the file holds.
RecordsWritten ==
  IF Len(file.data) < HeaderLen + 4 THEN 0
  ELSE (Len(file.data) - HeaderLen - 4) \div 50

\* The three floats at offset from.
Floats3(from) ==
  <<Unpack32(Bytes(from, 4)), Unpack32(Bytes(from + 4, 4)), Unpack32(Bytes(from + 8, 4))>>

RecordNormal(j) == Floats3(RecordOffset(j))

RecordVertex(j, n) == Floats3(RecordOffset(j) + 12 * n)

\* ------------------------------------------------- exact geometry
\* A coordinate in half units: every input coordinate is a whole or a half.
Half(x) == (2 * x) \div Scale

HalfPoint(v) == <<Half(v[1]), Half(v[2]), Half(v[3])>>

Dot(u, v) == u[1] * v[1] + u[2] * v[2] + u[3] * v[3]

CrossInt(u, v) ==
  <<u[2] * v[3] - u[3] * v[2], u[3] * v[1] - u[1] * v[3], u[1] * v[2] - u[2] * v[1]>>

Minus(u, v) == <<u[1] - v[1], u[2] - v[2], u[3] - v[3]>>

\* The cross product of v2-v1 and v3-v1 in exact integer arithmetic
\* (quarter units).
ExactCross(t) ==
  CrossInt(Minus(HalfPoint(t[2]), HalfPoint(t[1])), Minus(HalfPoint(t[3]), HalfPoint(t[1])))

Zero3 == <<0, 0, 0>>

WellFormed(t) == Len(t) = 3

Degenerate(t) == WellFormed(t) /\ ExactCross(t) = Zero3

MaxAbs(v) ==
  LET a == Abs(v[1])
      b == Abs(v[2])
      c == Abs(v[3])
  IN IF a >= b /\ a >= c THEN a ELSE IF b >= c THEN b ELSE c

\* ---------------------------------------------------------- claims

\* C1 (as claimed): a successful write produces 84 + 50*N bytes, an 80-byte
\* header followed by the count field at byte offset 80.
C1_FileSize ==
  pc = "done" =>
    /\ Len(file.data) = 84 + 50 * Len(triangles)
    /\ UnpackCount(Bytes(80, 4)) = Len(triangles)

\* C2: once written, the count field that follows the header holds the
\* number of input triangles; nothing but the header precedes it, and a
\* successful write ends with exactly that many 50-byte records after it.
C2_CountField ==
  /\ pc \in {"open", "header"} => Len(file.data) = 0
  /\ pc = "count" => file.data = Header
  /\ pc \in {"triangle", "vertex", "attribute", "done"} =>
       /\ Bytes(0, HeaderLen) = Header
       /\ UnpackCount(Bytes(HeaderLen, 4)) = Len(triangles)
  /\ pc = "done" => Len(file.data) = HeaderLen + 4 + 50 * Len(triangles)

C2_Witness ==
  /\ pc = "done"
  /\ Len(triangles) = 2
  /\ triangles[1] # triangles[2]

\* C3: the j-th record holds the three vertices of the j-th input triangle,
\* in input order, coordinate by coordinate, repeated ones included.
C3_VerticesVerbatim ==
  \A j \in 1..RecordsWritten : \A n \in 1..3 :
    RecordVertex(j, n) = triangles[j][n]

C3_Witness ==
  /\ pc = "done"
  /\ triangles = <<ProperTriangle, ProperTriangle>>

\* C4: a triangle of collinear or coincident vertices is written with the
\* normal (0, 0, 1) exactly (the bytes of 0.0, 0.0, 1.0); it raises nothing:
\* only a triangle that is not three vertices makes the unpacking raise, and
\* a write that finishes has written every record.
C4_DegenerateFallback ==
  /\ \A j \in 1..RecordsWritten :
       Degenerate(triangles[j]) =>
         Bytes(RecordOffset(j), 12) = <<0, 0, 0, 0, 0, 0, 0, 0, 0, 0, 128, 63>>
  /\ err = "unpack" => ~WellFormed(triangles[i])
  /\ pc = "done" => RecordsWritten = Len(triangles)

C4_Witness ==
  /\ pc = "done"
  /\ triangles = <<CollinearTriangle, CoincidentTriangle>>

C6_NoPartialFile == pc = "raised" => ~file.exists

\* C6 (amended): a failed open creates nothing; any later failure leaves the
\* file in place, shorter than the complete output and beginning as the
\* complete output begins.
C6_PartialFileLeft ==
  pc = "raised" =>
    IF err = "open" THEN ~file.exists
    ELSE /\ file.exists
         /\ Len(file.data) < HeaderLen + 4 + 50 * Len(triangles)
         /\ LET full == Header \o PackCount(Len(triangles))
                m == IF Len(file.data) < Len(full) THEN Len(file.data) ELSE Len(full)
            IN SubSeq(file.data, 1, m) = SubSeq(full, 1, m)
         /\ err = "unpack" => Len(file.data) = RecordOffset(i)

C6_Witness ==
  /\ pc = "raised"
  /\ err = "unpack"
  /\ i = 2
  /\ file.exists
  /\ Len(file.data) = HeaderLen + 4 + 50

\* C7 (as claimed): the normal the writer derives from each triangle of the
\* cube points away from the centre, the origin.
C7_CubeOutward ==
  call.fn = "cube" =>
    \A t \in 1..Len(triangles) :
      Dot(FaceNormal(triangles[t]), triangles[t][1]) > 0

\* C8: the cube is 12 triangles on the corners (+-size/2, +-size/2,
\* +-size/2); each of the 6 face planes holds exactly 2 of them, neither
\* degenerate, which together use 4 distinct corners.
C8_CubeGeometry ==
  call.fn = "cube" =>
    LET s == Half(call.a)
        InPlane(t, axis, side) == \A n \in 1..3 : Half(triangles[t][n][axis]) * 2 = side * s
    IN /\ Len(triangles) = 12
       /\ s > 0
       /\ \A t \in 1..Len(triangles) : \A n \in 1..3 : \A axis \in 1..3 :
            Abs(Half(triangles[t][n][axis])) * 2 = s
       /\ \A axis \in 1..3 : \A side \in {-1, 1} :
            LET face == {t \in 1..Len(triangles) : InPlane(t, axis, side)}
            IN /\ Cardinality(face) = 2
               /\ \A t \in face : ~Degenerate(triangles[t])
               /\ Cardinality({triangles[t][n] : t \in face, n \in 1..3}) = 4

C8_Witness ==
  /\ call.fn = "cube"
  /\ call.a = FromInt(10)
  /\ pc = "open"

\* C9: the pyramid is 6 triangles: 2 in the plane z = 0 that use the 4
\* corners (+-base_size/2, +-base_size/2, 0), and 4 sides, each the apex
\* (0, 0, height) with the two ends of one base edge, every base edge in
\* exactly one side.
C9_PyramidGeometry ==
  call.fn = "pyramid" =>
    LET s2 == Half(call.a)
        apex == <<0, 0, Half(call.b)>>
        T(t) == <<HalfPoint(triangles[t][1]), HalfPoint(triangles[t][2]),
                  HalfPoint(triangles[t][3])>>
        Set(t) == {T(t)[1], T(t)[2], T(t)[3]}
        corners == {<<x, y, 0>> : x \in {s2, 0 - s2}, y \in {s2, 0 - s2}}
        Corner(v) == <<2 * v[1], 2 * v[2], 2 * v[3]>> \in corners
        baseEdges == {e \in SUBSET {v \in UNION {Set(t) : t \in 1..6} : Corner(v)} :
                        /\ Cardinality(e) = 2
                        /\ \E u \in e, v \in e :
                             (u[1] = v[1] /\ u[2] # v[2]) \/ (u[1] # v[1] /\ u[2] = v[2])}
        flat == {t \in 1..6 : \A n \in 1..3 : T(t)[n][3] = 0}
        sides == {t \in 1..6 : apex \in Set(t)}
    IN /\ Len(triangles) = 6
       /\ Cardinality(flat) = 2
       /\ \A t \in flat : \A n \in 1..3 : Corner(T(t)[n])
       /\ Cardinality(UNION {Set(t) : t \in flat}) = 4
       /\ Cardinality(sides) = 4
       /\ flat \cap sides = {}
       /\ Cardinality(baseEdges) = 4
       /\ \A t \in sides : Set(t) \ {apex} \in baseEdges
       /\ \A e \in baseEdges : Cardinality({t \in sides : Set(t) \ {apex} = e}) = 1

C9_Witness ==
  /\ call.fn = "pyramid"
  /\ call.a = FromInt(8)
  /\ call.b = FromInt(6)
  /\ pc = "open"

\* C10: every record is 50 bytes: the 12 bytes of the normal, the 36 bytes
\* of the three vertices, then two attribute bytes, both zero, whatever the
\* coordinates.
C10_RecordLayout ==
  /\ \A j \in 1..RecordsWritten :
       /\ Bytes(RecordOffset(j), 12) = Pack3(FaceNormal(triangles[j]))
       /\ Bytes(RecordOffset(j) + 12, 36) =
            Pack3(triangles[j][1]) \o Pack3(triangles[j][2]) \o Pack3(triangles[j][3])
       /\ Bytes(RecordOffset(j) + 48, 2) = <<0, 0>>
  /\ pc = "triangle" => Len(file.data) = RecordOffset(i)
  /\ pc = "vertex" => Len(file.data) = RecordOffset(i) + 12 * k
  /\ pc = "attribute" => Len(file.data) = RecordOffset(i) + 48

C10_Witness ==
  /\ pc = "done"
  /\ call.fn = "pyramid"
  /\ RecordsWritten = 6

====
